---- MODULE Spec2Model ----
(***************************************************************************)
(* The contract extraction pipeline of src/src/ingestion/extraction.py:    *)
(* SimpleContractProcessor.process_all lists the bucket, filters out the   *)
(* files BigQuery already holds, creates the table, submits one            *)
(* extract_contract call per file to a ThreadPoolExecutor, drains the      *)
(* futures in completion order into a batch and writes the batch to        *)
(* BigQuery whenever it is full and once more at the end.                  *)
(***************************************************************************)
EXTENDS Integers, Sequences, FiniteSets, TLC

(***************************************************************************)
(* Bounds of the model.                                                    *)
(***************************************************************************)
\* how many contract objects the bucket can hold
MaxBlobs == 3
\* --workers is 1 or MaxWorkers
MaxWorkers == 2
\* --batch-size is 0 (with one worker), 1 or MaxBatchSize
MaxBatchSize == 2

(***************************************************************************)
(* Values.                                                                 *)
(***************************************************************************)
\* Python's None
None == [none |-> TRUE]

\* An object name is <<stem, suffix>>.  The bucket holds one object that is
\* no contract file and some of the contract objects, and lists them in
\* the order of their names.
OtherBlob == <<"2020/INDEX", ".json">>

ContractBlobs ==
    << <<"2020/a", ".pdf">>, <<"2020/b", ".HTML">>, <<"2020/c", ".txt">>,
       <<"2020/d", ".htm">>, <<"2020/e", ".PDF">> >>

bucket_name == "bucket"

\* str.lower() on the suffixes of the universe
Lower(s) ==
    CASE s = ".HTML" -> ".html"
      [] s = ".PDF" -> ".pdf"
      [] OTHER -> s

\* name.lower().endswith(('.htm', '.html', '.pdf', '.txt'))
HasContractSuffix(name) == Lower(name[2]) \in {".htm", ".html", ".pdf", ".txt"}

\* the prefix written for the name: f"gs://{self.bucket_name}/{self.gcs_prefix}",
\* as in the log line before the listing
GcsPathOfPrefix(name) == <<"gs://", bucket_name, <<"2020/", "">> >>

\* f"gs://{self.bucket_name}/{blob.name}"
GcsPath(name) == <<"gs://", bucket_name, name>>

\* [x for x in s if P(x)] on sequences
RECURSIVE SelectSeqBy(_, _)
SelectSeqBy(s, keep) ==
    IF s = <<>> THEN <<>>
    ELSE IF Head(s) \in keep THEN <<Head(s)>> \o SelectSeqBy(Tail(s), keep)
         ELSE SelectSeqBy(Tail(s), keep)

Range(s) == {s[i] : i \in DOMAIN s}

\* what list_blobs can return: the other object, then the first n contract
\* objects
Listings == {<<OtherBlob>> \o SubSeq(ContractBlobs, 1, n) : n \in 0..MaxBlobs}

(***************************************************************************)
(* contract_schema.py: the pydantic models.  A JSON value is modelled by   *)
(* its kind: "null", "str", "num", "list" (a list of strings), "obj" (a    *)
(* nested object, which no field accepts).                                 *)
(***************************************************************************)
\* Optional[...] = Field(description=...): no default is given
ScalarStrFields ==
    {"company_name", "form_type", "filing_date", "state_of_incorp",
     "contract_category", "contract_type", "governing_law_state",
     "contract_summary"}

FloatFields == {"numeric_value"}

\* List[str] = Field(..., default=[])
ListFields == {"parties", "clauses"}

ExtractionFields == ScalarStrFields \cup FloatFields \cup ListFields

\* a field declared without a default must be given (pydantic 2, whose
\* model_dump extract_contract calls); Optional only lets it be null
RequiredExtractionFields == ScalarStrFields \cup FloatFields

\* the value kinds a field's annotation accepts
Accepts(field) ==
    IF field \in ScalarStrFields THEN {"null", "str"}
    ELSE IF field \in FloatFields THEN {"null", "num"}
    ELSE {"list"}

\* ContractExtraction(**data): every required key present, every present
\* declared key of an accepted kind; undeclared keys are ignored
ContractExtractionValid(data) ==
    /\ RequiredExtractionFields \subseteq DOMAIN data
    /\ \A k \in DOMAIN data \cap ExtractionFields : data[k] \in Accepts(k)

\* extraction.model_dump(): every declared field, the defaults filled in
ContractExtractionDump(data) ==
    [k \in ExtractionFields |->
        IF k \in DOMAIN data THEN data[k]
        ELSE IF k \in ListFields THEN "emptylist" ELSE "null"]

\* class Contract(ContractExtraction): contract_id: str, file_path: str
ContractFields == ExtractionFields \cup {"contract_id", "file_path"}

\* Contract(**contract_data).model_dump()
Contract(contract_data) ==
    [k \in ContractFields |-> contract_data[k]]

(***************************************************************************)
(* The extraction service's replies.  A reply either raises or is a text,  *)
(* a sequence of lines; a line is a fence, a fence with a language tag, a  *)
(* JSON object (with its members), a JSON array or prose.                  *)
(***************************************************************************)
NoData == [k \in {} |-> "null"]

Line(t, v) == [t |-> t, v |-> v]

FullData ==
    [k \in ExtractionFields |->
        IF k \in ScalarStrFields THEN "str"
        ELSE IF k \in FloatFields THEN "num" ELSE "list"]

\* every scalar present and null, the lists left out
NullData == [k \in RequiredExtractionFields |-> "null"]

\* a nested object where a string is expected
BadTypeData == [FullData EXCEPT !["company_name"] = "obj"]

Raises == [raises |-> TRUE, lines |-> <<>>]

Text(lines) == [raises |-> FALSE, lines |-> lines]

Responses ==
    { Raises,
      Text(<<Line("prose", NoData)>>),
      Text(<<Line("object", FullData)>>),
      Text(<<Line("fencetag", NoData), Line("object", NullData), Line("fence", NoData)>>),
      Text(<<Line("object", NoData)>>),
      Text(<<Line("object", BadTypeData)>>) }

\* text.startswith("```") and text.endswith("```")
IsFenced(lines) ==
    /\ lines # <<>>
    /\ lines[1].t \in {"fence", "fencetag"}
    /\ lines[Len(lines)].t = "fence"

\* "\n".join(text.split("\n")[1:-1])
StripFence(lines) ==
    IF IsFenced(lines) THEN SubSeq(lines, 2, Len(lines) - 1) ELSE lines

\* json.loads(text) returns: the text is exactly one JSON value
JsonLoads(lines) ==
    IF Len(lines) = 1 /\ lines[1].t \in {"object", "array"}
    THEN lines[1] ELSE None

\* the validation left out: whatever JSON object comes back is dumped
extract_contract_unvalidated(gcs_path, reply, uuid) ==
    IF reply.raises THEN None
    ELSE LET parsed == JsonLoads(StripFence(reply.lines))
         IN IF parsed = None THEN None
            ELSE IF parsed.t # "object" THEN None
            ELSE Contract([k \in ContractFields |->
                     IF k = "contract_id" THEN uuid
                     ELSE IF k = "file_path" THEN gcs_path
                     ELSE ContractExtractionDump(parsed.v)[k]])

\* extract_contract: the record it returns for the reply, or None
extract_contract(gcs_path, reply, uuid) ==
    IF reply.raises THEN None
    ELSE LET parsed == JsonLoads(StripFence(reply.lines))
         IN IF parsed = None THEN None
            ELSE IF parsed.t # "object" THEN None
            ELSE IF ~ContractExtractionValid(parsed.v) THEN None
            ELSE Contract([k \in ContractFields |->
                     IF k = "contract_id" THEN uuid
                     ELSE IF k = "file_path" THEN gcs_path
                     ELSE ContractExtractionDump(parsed.v)[k]])

(***************************************************************************)
(* insert_batch's formatting of the rows for BigQuery.                     *)
(***************************************************************************)
\* the keys extract_contract adds: always strings, never None
MetadataFields == {"contract_id", "file_path"}

\* str(value) of an extracted value
Str(value) == IF value = "num" THEN "str" ELSE value

\* `value is not None`
NotNone(row, k) == k \in MetadataFields \/ row[k] # "null"

\* one bq_row: a None value leaves its key out, a list stays a list of
\* strings, every other value goes through str
BqRow(row) ==
    [k \in {f \in DOMAIN row : NotNone(row, f)} |->
        IF k \in MetadataFields THEN row[k]
        ELSE IF k \in {"parties", "clauses"} /\ row[k] \in {"list", "emptylist"}
        THEN row[k]
        ELSE Str(row[k])]

BqRows(rows) == [i \in DOMAIN rows |-> BqRow(rows[i])]

(***************************************************************************)
(* The state.                                                              *)
(***************************************************************************)
VARIABLES
    run,             \* which run of the program this is: the first, the second
    skip_processed,  \* process_all's argument: not --reprocess-all
    workers,         \* self.workers
    batch_size,      \* self.batch_size
    blobs,           \* what bucket.list_blobs returns
    table_exists,    \* BigQuery: the table is there
    table_rows,      \* BigQuery: the rows of the table
    pc,              \* where process_all is
    all_files,       \* get_gcs_files: the listed contract files
    query_result,    \* get_processed_files: not called, got rows, or failed
    processed_files, \* what get_processed_files returned
    files,           \* process_all: the files to process
    submitted,       \* the files given to executor.submit, in order
    work_queue,      \* the executor's queue of calls not yet started
    running,         \* the calls a worker thread is executing
    replies,         \* file -> the reply its call got, until the call returns
    results,         \* file -> the finished future's result
    yielded,         \* the files whose future as_completed has yielded
    batch,           \* process_all: batch
    successful,      \* process_all: successful
    pbar,            \* the progress bar's count
    inserts          \* the insert_batch calls on a non-empty batch, in order

vars ==
    <<run, skip_processed, workers, batch_size, blobs, table_exists, table_rows, pc,
      all_files, query_result, processed_files, files, submitted, work_queue,
      running, replies, results, yielded, batch, successful, pbar, inserts>>

config == <<run, skip_processed, workers, batch_size, blobs>>

poolvars == <<submitted, work_queue, running, replies, results>>

drainvars == <<yielded, batch, successful, pbar, inserts>>

listvars == <<all_files, query_result, processed_files, files>>

\* the rows an earlier run left in the table: one per path, ids below 0
OldRow(i) ==
    [k \in {"contract_id", "file_path"} |->
        IF k = "contract_id" THEN 0 - i ELSE GcsPath(ContractBlobs[i])]

\* an empty table, or one that holds the first contract object
OldRowSets == {{}, {OldRow(1)}}

Init ==
    /\ run = 1
    /\ skip_processed \in BOOLEAN
    /\ workers \in {1, MaxWorkers}
    /\ batch_size \in (IF workers = 1 THEN {0} ELSE {}) \cup {1, MaxBatchSize}
    /\ blobs \in Listings
    /\ table_exists \in BOOLEAN
    /\ table_rows \in (IF table_exists THEN OldRowSets ELSE {{}})
    /\ pc = "get_gcs_files"
    /\ all_files = <<>>
    /\ query_result = "not_called"
    /\ processed_files = {}
    /\ files = <<>>
    /\ submitted = <<>>
    /\ work_queue = <<>>
    /\ running = {}
    /\ replies = <<>>
    /\ results = <<>>
    /\ yielded = {}
    /\ batch = <<>>
    /\ successful = 0
    /\ pbar = 0
    /\ inserts = <<>>

(***************************************************************************)
(* get_processed_files and get_gcs_files.                                  *)
(***************************************************************************)
\* SELECT DISTINCT file_path: the query's rows, or "failed" when it raises
\* (the table is missing, or the store cannot be reached)
QueryOutcomes ==
    {"failed"} \cup (IF table_exists THEN {"rows"} ELSE {})

\* get_processed_files: the list it returns
get_processed_files(outcome) ==
    IF outcome = "rows" THEN {r["file_path"] : r \in table_rows} ELSE {}

\* all_files: the listed names with a contract suffix, as gs:// paths
ListedFiles(listing) ==
    LET keep == {n \in Range(listing) : HasContractSuffix(n)}
        names == SelectSeqBy(listing, keep)
    IN [i \in DOMAIN names |-> GcsPath(names[i])]

\* the filter left out: every listed file is kept
UnprocessedUnfiltered(listed, processed) == listed

\* [f for f in all_files if f not in processed_files]
Unprocessed(listed, processed) ==
    SelectSeqBy(listed, Range(listed) \ processed)

\* the early return left out: an empty list goes on to create_table
AfterListingNoReturn(fs) == "create_table"

\* `if not files: return`, lines 225-227: where process_all goes after the
\* listing
AfterListing(fs) == IF fs = <<>> THEN "no_files" ELSE "create_table"

\* process_all, lines 224-227: get_gcs_files, then return when nothing is left
GetGcsFiles ==
    /\ pc = "get_gcs_files"
    /\ all_files' = ListedFiles(blobs)
    /\ \/ /\ skip_processed
          /\ \E outcome \in QueryOutcomes :
                /\ query_result' = outcome
                /\ processed_files' = get_processed_files(outcome)
                /\ files' = Unprocessed(all_files', processed_files')
       \/ /\ ~skip_processed
          /\ files' = all_files'
          /\ UNCHANGED <<query_result, processed_files>>
    /\ pc' = AfterListing(files')
    /\ UNCHANGED <<config, table_exists, table_rows, poolvars, drainvars>>

(***************************************************************************)
(* create_table.                                                           *)
(***************************************************************************)
\* get_table returns the table, or raises: NotFound when the table is
\* missing, any other error of the store whether or not it is there
GetTableOutcomes ==
    {"error"} \cup (IF table_exists THEN {"found"} ELSE {"not_found"})

\* process_all, line 230: the bare except sends every get_table failure to
\* bigquery_client.create_table, which raises Conflict on a present table;
\* nothing in process_all or main catches it
CreateTable ==
    /\ pc = "create_table"
    /\ \E outcome \in GetTableOutcomes :
          \/ /\ outcome = "found"
             /\ pc' = "submit"
             /\ UNCHANGED table_exists
          \/ /\ outcome # "found"
             /\ ~table_exists
             /\ table_exists' = TRUE
             /\ pc' = "submit"
          \/ /\ outcome # "found"
             /\ table_exists
             /\ pc' = "raised"
             /\ UNCHANGED table_exists
    /\ UNCHANGED <<config, table_rows, listvars, poolvars, drainvars>>

(***************************************************************************)
(* The ThreadPoolExecutor and the extract_contract calls.                  *)
(***************************************************************************)
\* an id made from the path alone: the same file gets the same id again
uuid_of_path(f) == CHOOSE i \in DOMAIN files : files[i] = f

\* str(uuid.uuid4()): a value no other call and no stored row has; here the
\* file's place among the files of the run, counted on from the run before
uuid4(f) ==
    (run - 1) * Len(ContractBlobs) + (CHOOSE i \in DOMAIN files : files[i] = f)

\* no bound on the threads: a queued call starts at once
WorkerAlwaysFree == TRUE

\* one thread too few: with max_workers threads allowed, the last is never
\* started
WorkerFreeButOne == Cardinality(running) < workers - 1

\* ThreadPoolExecutor(max_workers=self.workers): a queued call starts only
\* while fewer than max_workers threads are busy
WorkerFree == Cardinality(running) < workers

\* process_all, line 237: executor.submit for the next file of files; after
\* the last one the main thread enters the as_completed loop
Submit ==
    /\ pc = "submit"
    /\ LET f == files[Len(submitted) + 1]
       IN /\ submitted' = Append(submitted, f)
          /\ work_queue' = Append(work_queue, f)
    /\ pc' = IF Len(submitted') = Len(files) THEN "drain" ELSE "submit"
    /\ UNCHANGED <<config, table_exists, table_rows, listvars, running,
                   replies, results, drainvars>>

\* a worker thread takes the oldest queued call and calls the service
StartCall ==
    /\ work_queue # <<>>
    /\ WorkerFree
    /\ running' = running \cup {Head(work_queue)}
    /\ work_queue' = Tail(work_queue)
    /\ UNCHANGED <<config, table_exists, table_rows, pc, listvars, submitted,
                   replies, results, drainvars>>

\* generate_content returns or raises in the worker thread of f
Reply(f) ==
    /\ f \in running
    /\ f \notin DOMAIN replies
    /\ \E reply \in Responses : replies' = (f :> reply) @@ replies
    /\ UNCHANGED <<config, table_exists, table_rows, pc, listvars, submitted,
                   work_queue, running, results, drainvars>>

\* the rest of extract_contract, lines 144-164: the reply is parsed and
\* validated, the call returns, the future is done and the thread is free
Return(f) ==
    /\ f \in running
    /\ f \in DOMAIN replies
    /\ results' = (f :> extract_contract(f, replies[f], uuid4(f))) @@ results
    /\ replies' = [g \in DOMAIN replies \ {f} |-> replies[g]]
    /\ running' = running \ {f}
    /\ UNCHANGED <<config, table_exists, table_rows, pc, listvars, submitted,
                   work_queue, drainvars>>

(***************************************************************************)
(* insert_batch and the loop over as_completed.                            *)
(***************************************************************************)
\* insert_rows_json returns no errors, returns row errors (the request is
\* rejected), or raises; insert_batch logs and returns in each case
InsertOutcomes == {"inserted", "errors", "raised"}

\* a fallback retry: a bulk write that failed is made a second time
insert_batch_retrying(rows, site, outcome) ==
    IF rows = <<>>
    THEN UNCHANGED <<table_rows, inserts>>
    ELSE /\ inserts' = IF outcome = "inserted"
                       THEN Append(inserts, [rows |-> rows, site |-> site])
                       ELSE inserts \o << [rows |-> rows, site |-> site],
                                          [rows |-> rows, site |-> site] >>
         /\ table_rows' = IF outcome = "inserted"
                          THEN table_rows \cup Range(BqRows(rows))
                          ELSE table_rows

\* insert_batch(rows) called from `site`, with the bulk write's outcome
insert_batch(rows, site, outcome) ==
    IF rows = <<>>
    THEN UNCHANGED <<table_rows, inserts>>
    ELSE /\ inserts' = Append(inserts, [rows |-> rows, site |-> site])
         /\ table_rows' = IF outcome = "inserted"
                          THEN table_rows \cup Range(BqRows(rows))
                          ELSE table_rows

\* the test turned round: `if not result:`
TruthyInverted(result) == result = None

\* `if result:` a record is a non-empty dict
Truthy(result) == result # None

\* `>` for `>=`: the batch is written one record late
BatchOverFull(b) == Len(b) > batch_size

\* len(batch) >= self.batch_size
BatchFull(b) == Len(b) >= batch_size

\* the reset left out: the written records stay in the batch
NotEmptied(b) == b

\* `batch = []` after the insert of the full batch b
Emptied(b) == <<>>

\* the futures taken in the order of their submission: a finished future
\* waits until every future submitted before it has been taken
in_submission_order ==
    {f \in DOMAIN results \ yielded :
        \A i, j \in DOMAIN submitted :
           (submitted[j] = f /\ i < j) => submitted[i] \in yielded}

\* as_completed(future_to_file), line 240: the futures it can yield next
\* are the finished ones it has not yielded
as_completed == DOMAIN results \ yielded

\* one turn of the loop of lines 240-251, for the finished future of f
Drain(f) ==
    /\ pc = "drain"
    /\ f \in as_completed
    /\ yielded' = yielded \cup {f}
    /\ IF Truthy(results[f])
       THEN /\ successful' = successful + 1
            /\ IF BatchFull(Append(batch, results[f]))
               THEN /\ \E outcome \in InsertOutcomes :
                          insert_batch(Append(batch, results[f]), "loop", outcome)
                    /\ batch' = Emptied(Append(batch, results[f]))
               ELSE /\ batch' = Append(batch, results[f])
                    /\ UNCHANGED <<table_rows, inserts>>
       ELSE UNCHANGED <<successful, batch, table_rows, inserts>>
    /\ pbar' = pbar + 1
    /\ pc' = IF yielded' = Range(submitted) THEN "remaining" ELSE "drain"
    /\ UNCHANGED <<config, table_exists, listvars, poolvars>>

\* lines 253-257: `if batch: self.insert_batch(batch)`, then the closing log
InsertRemaining ==
    /\ pc = "remaining"
    /\ \E outcome \in InsertOutcomes : insert_batch(batch, "end", outcome)
    /\ pc' = "done"
    /\ UNCHANGED <<config, table_exists, listvars, poolvars, yielded, batch,
                   successful, pbar>>

\* process_all has returned (line 227 or after line 257) or was left by the
\* exception of create_table
Ended == pc \in {"no_files", "raised", "done"}

Next ==
    \/ GetGcsFiles
    \/ CreateTable
    \/ Submit
    \/ StartCall
    \/ \E f \in running : Reply(f)
    \/ \E f \in running : Return(f)
    \/ \E f \in DOMAIN results : Drain(f)
    \/ InsertRemaining

Spec == Init /\ [][Next]_vars

\* Every step that can be taken is taken in the end: the main thread and
\* the worker threads are scheduled, and every call to the service
\* (Reply) and to the store (inside GetGcsFiles, CreateTable, Drain and
\* InsertRemaining) returns or raises
Fairness ==
    /\ WF_vars(GetGcsFiles)
    /\ WF_vars(CreateTable)
    /\ WF_vars(Submit)
    /\ WF_vars(StartCall)
    /\ WF_vars(\E f \in running : Reply(f))
    /\ WF_vars(\E f \in running : Return(f))
    /\ WF_vars(\E f \in DOMAIN results : Drain(f))
    /\ WF_vars(InsertRemaining)

\* how many contract objects the bucket holds in the runs that are
\* followed to their end
MaxBlobsFair == 2

ListingsFair ==
    {<<OtherBlob>> \o SubSeq(ContractBlobs, 1, n) : n \in 0..MaxBlobsFair}

\* Init with a listing of ListingsFair
InitFair ==
    /\ blobs \in ListingsFair
    /\ Init

\* the runs in which no thread and no call hangs
FairSpec == InitFair /\ [][Next]_vars /\ Fairness

(***************************************************************************)
(* The operator interrupts the run.                                        *)
(***************************************************************************)
\* KeyboardInterrupt is raised in the main thread while it is in the loop
\* of lines 240-251.  No try or finally is around the loop: the exception
\* leaves both with blocks (the executor's __exit__ waits for the calls,
\* whose results nobody takes) and then process_all, so lines 253-255 are
\* not reached
Cancel ==
    /\ pc = "drain"
    /\ pc' = "interrupted"
    /\ UNCHANGED <<config, table_exists, table_rows, listvars, poolvars,
                   drainvars>>

NextCancel == Next \/ Cancel

\* the runs of process_all, an interrupt of the loop included
SpecCancel == Init /\ [][NextCancel]_vars

(***************************************************************************)
(* The program is run a second time over the same bucket and table.        *)
(***************************************************************************)
\* how many contract objects the bucket holds when the program is run twice
MaxBlobsTwoRuns == 2

ListingsTwoRuns ==
    {<<OtherBlob>> \o SubSeq(ContractBlobs, 1, n) : n \in 0..MaxBlobsTwoRuns}

\* the first run starts on a table that is missing or empty
InitTwoRuns ==
    /\ run = 1
    /\ skip_processed \in BOOLEAN
    /\ workers = MaxWorkers
    /\ batch_size \in {1, MaxBatchSize}
    /\ blobs \in ListingsTwoRuns
    /\ table_exists \in BOOLEAN
    /\ table_rows = {}
    /\ pc = "get_gcs_files"
    /\ all_files = <<>>
    /\ query_result = "not_called"
    /\ processed_files = {}
    /\ files = <<>>
    /\ submitted = <<>>
    /\ work_queue = <<>>
    /\ running = {}
    /\ replies = <<>>
    /\ results = <<>>
    /\ yielded = {}
    /\ batch = <<>>
    /\ successful = 0
    /\ pbar = 0
    /\ inserts = <<>>

\* main() is started again after the first process has ended, with or
\* without --reprocess-all: a new processor, whose process_all starts with
\* fresh locals; the bucket and the table are as the first run left them
NextRun ==
    /\ run = 1
    /\ Ended
    /\ run' = 2
    /\ skip_processed' \in BOOLEAN
    /\ pc' = "get_gcs_files"
    /\ all_files' = <<>>
    /\ query_result' = "not_called"
    /\ processed_files' = {}
    /\ files' = <<>>
    /\ submitted' = <<>>
    /\ work_queue' = <<>>
    /\ running' = {}
    /\ replies' = <<>>
    /\ results' = <<>>
    /\ yielded' = {}
    /\ batch' = <<>>
    /\ successful' = 0
    /\ pbar' = 0
    /\ inserts' = <<>>
    /\ UNCHANGED <<workers, batch_size, blobs, table_exists, table_rows>>

NextTwoRuns == Next \/ NextRun

SpecTwoRuns == InitTwoRuns /\ [][NextTwoRuns]_vars

(***************************************************************************)
(* What the run has done, read from the state.                             *)
(***************************************************************************)
\* the records of the calls that returned one
Records(fs) == {results[f] : f \in {g \in fs \cap DOMAIN results : results[g] # None}}

\* the records passed to insert_batch so far, in order
RECURSIVE Flatten(_)
Flatten(calls) ==
    IF calls = <<>> THEN <<>> ELSE Head(calls).rows \o Flatten(Tail(calls))

Flushed == Flatten(inserts)

\* the insert_batch calls made from one place
InsertsAt(site) == SelectSeq(inserts, LAMBDA c : c.site = site)

NoDuplicates(s) == \A i, j \in DOMAIN s : s[i] = s[j] => i = j

\* the calls the service has not answered yet
InFlight == running \ DOMAIN replies

\* process_all can go on: its own next step is enabled, or it waits in
\* as_completed for a call that a thread is executing or can start
CanGoOn ==
    CASE pc = "submit" -> ENABLED Submit
      [] pc = "drain" -> \/ running # {}
                         \/ ENABLED StartCall
                         \/ ENABLED (\E f \in DOMAIN results : Drain(f))
      [] pc = "remaining" -> ENABLED InsertRemaining
      [] OTHER -> TRUE

(***************************************************************************)
(* C1.  Dedup: with skip_processed, a listed file whose path the existence *)
(* query returned is never submitted to the executor.                      *)
(***************************************************************************)
C1_DedupNeverSubmits ==
    skip_processed =>
        /\ Range(submitted) \cap processed_files = {}
        /\ Range(files) \cap processed_files = {}
        /\ Range(work_queue) \cup running \cup DOMAIN results
              \subseteq Range(submitted)

C1_Witness ==
    /\ skip_processed
    /\ pc = "done"
    /\ query_result = "rows"
    /\ Range(all_files) \cap processed_files # {}
    /\ submitted # <<>>

(***************************************************************************)
(* C2.  Failure isolation: whichever calls fail, every submitted file      *)
(* gets its turn of the loop, every record returned reaches the batch or   *)
(* an insert, no exception leaves process_all once files are submitted,    *)
(* and the run goes on to its end.                                         *)
(***************************************************************************)
C2_FailureIsolation ==
    /\ pc = "raised" => submitted = <<>>
    /\ CanGoOn
    /\ Records(yielded) = Range(batch) \cup Range(Flushed)
    /\ pbar = Cardinality(yielded)
    /\ pc \in {"remaining", "done"} =>
          /\ yielded = Range(submitted)
          /\ pbar = Len(submitted)
    /\ pc = "done" => Records(Range(submitted)) = Range(Flushed)

C2_Witness ==
    /\ pc = "done"
    /\ Len(submitted) = 3
    /\ \E f, g \in Range(submitted) :
          /\ results[f] = None
          /\ results[g] # None
          /\ results[g] \in Range(Flushed)

(***************************************************************************)
(* C3.  Batch atomicity: at the end of a run the batches passed to         *)
(* insert_batch hold exactly the records the calls returned, each once;    *)
(* before the end, a record the loop has taken is in the batch or in one   *)
(* insert, never in both and never twice.                                  *)
(***************************************************************************)
C3_BatchAtomicity ==
    /\ NoDuplicates(Flushed \o (IF pc = "done" THEN <<>> ELSE batch))
    /\ pc # "done" => Range(Flushed) \cup Range(batch) = Records(yielded)
    /\ pc = "done" => Range(Flushed) = Records(Range(submitted))
    /\ Ended /\ pc # "done" => Flushed = <<>> /\ results = <<>>

C3_Witness ==
    /\ pc = "done"
    /\ Len(inserts) >= 2
    /\ Len(Flushed) = 3
    /\ \E i \in DOMAIN inserts : Len(inserts[i].rows) = 2

(***************************************************************************)
(* C4.  Batch sizing: with batch_size >= 1, a run whose calls returned     *)
(* batch_size * k + r records (0 <= r < batch_size) made k inserts from    *)
(* the loop, each of batch_size records, then one insert of r records      *)
(* after the loop when r > 0 and none when r = 0.                          *)
(***************************************************************************)
C4_BatchSizing ==
    (pc = "done" /\ batch_size >= 1) =>
        LET n == Cardinality(Records(Range(submitted)))
            k == n \div batch_size
            r == n % batch_size
            loop == InsertsAt("loop")
            end == InsertsAt("end")
        IN /\ Len(loop) = k
           /\ \A i \in DOMAIN loop : Len(loop[i].rows) = batch_size
           /\ Len(end) = (IF r > 0 THEN 1 ELSE 0)
           /\ \A i \in DOMAIN end : Len(end[i].rows) = r
           /\ inserts = loop \o end

C4_Witness ==
    /\ pc = "done"
    /\ batch_size = 2
    /\ Len(InsertsAt("loop")) = 1
    /\ Len(InsertsAt("end")) = 1
    /\ Len(Flushed) = 3

(***************************************************************************)
(* C5.  A record is handed to insert_rows_json if and only if its file's   *)
(* call got a reply that parsed as a JSON object and passed the schema:    *)
(* a call returns a record exactly for such a reply, every row handed to   *)
(* the store is the row of a record some call returned for that path, and  *)
(* at the end of the run every returned record has been handed over.       *)
(***************************************************************************)
\* the reply did not raise, parsed as a JSON object and passed validation
ReplyAccepted(reply) ==
    /\ ~reply.raises
    /\ LET parsed == JsonLoads(StripFence(reply.lines))
       IN /\ parsed # None
          /\ parsed.t = "object"
          /\ ContractExtractionValid(parsed.v)

\* every record given to insert_rows_json is the record a call returned for
\* its path; every row the run stored is the row of such a record; at the
\* end every returned record has been given
C5_Handed ==
    LET handed == Flushed
    IN /\ \A i \in DOMAIN handed :
             \E f \in DOMAIN results :
                /\ results[f] # None
                /\ results[f] = handed[i]
                /\ handed[i]["file_path"] = f
       /\ \A row \in table_rows :
             row["contract_id"] > 0 =>
                \E i \in DOMAIN handed : row = BqRow(handed[i])
       /\ pc = "done" =>
             \A f \in DOMAIN results :
                results[f] # None => results[f] \in Range(handed)

C5_Return ==
    \A f \in running \cap DOMAIN replies :
       f \in DOMAIN results' =>
          ((results'[f] # None) <=> ReplyAccepted(replies[f]))

\* C5: rows reach the store only for, and at the end for all of, the calls
\* whose reply was accepted
C5_StoreOnlyValidated == []C5_Handed /\ [][C5_Return]_vars

C5_Witness ==
    /\ pc = "done"
    /\ \E f, g \in DOMAIN results :
          /\ results[f] = None
          /\ results[g] # None
          /\ results[g] \in Range(Flushed)
          /\ BqRow(results[g]) \in table_rows
          /\ "company_name" \notin DOMAIN BqRow(results[g])

(***************************************************************************)
(* C6.  Concurrency bound: the calls the service has not answered are      *)
(* never more than self.workers.                                           *)
(***************************************************************************)
C6_ConcurrencyBound ==
    /\ Cardinality(InFlight) <= workers
    /\ Cardinality(running) <= workers

C6_Witness ==
    /\ workers = 2
    /\ Cardinality(InFlight) = workers
    /\ work_queue # <<>>

(***************************************************************************)
(* C7.  Force mode, as claimed: without skip_processed the existence       *)
(* query is not run and every listed contract file is submitted.           *)
(* create_table can raise before anything is submitted (see C13), and the  *)
(* run then ends with no file submitted.                                   *)
(***************************************************************************)
C7_ForceModeAsClaimed ==
    ~skip_processed =>
        /\ query_result = "not_called"
        /\ Ended => submitted = ListedFiles(blobs)

(***************************************************************************)
(* C8.  Schema tolerance, as claimed: a reply that parses as a JSON        *)
(* object with none of the extraction fields makes extract_contract        *)
(* return a record with the generated id and the path.                     *)
(***************************************************************************)
\* the reply is a JSON object without any key of ContractExtraction
OptionalFieldsAbsent(reply) ==
    /\ ~reply.raises
    /\ LET parsed == JsonLoads(StripFence(reply.lines))
       IN /\ parsed # None
          /\ parsed.t = "object"
          /\ DOMAIN parsed.v \cap ExtractionFields = {}

C8_Return ==
    \A f \in running \cap DOMAIN replies :
       (f \in DOMAIN results' /\ OptionalFieldsAbsent(replies[f])) =>
          /\ results'[f] # None
          /\ results'[f]["file_path"] = f

\* C8: every return for a reply without the optional fields is a record
C8_SchemaToleranceAsClaimed == [][C8_Return]_vars

(***************************************************************************)
(* C9.  First-run bootstrap, as claimed: when the existence query fails,   *)
(* nothing counts as processed, the run is not aborted and every listed    *)
(* file is submitted.  After a failed query create_table can still raise   *)
(* (see C13).                                                              *)
(***************************************************************************)
C9_BootstrapAsClaimed ==
    query_result = "failed" =>
        /\ processed_files = {}
        /\ files = all_files
        /\ pc # "raised"
        /\ Ended => submitted = all_files

(***************************************************************************)
(* C10.  A bulk write that reports errors or raises is not fatal: no       *)
(* exception leaves process_all, the run goes on, every record taken       *)
(* afterwards is still written, and no record is passed to a second        *)
(* insert_batch call.                                                      *)
(***************************************************************************)
\* the bulk write of the i-th insert_batch call stored nothing
InsertFailed(i) == Range(BqRows(inserts[i].rows)) \cap table_rows = {}

\* C10: after any bulk write the run goes on and no record is written twice
C10_WriteFailureNotFatal ==
    /\ inserts # <<>> => pc \in {"drain", "remaining", "done"}
    /\ inserts # <<>> => CanGoOn
    /\ \A i, j \in DOMAIN inserts :
          i # j => Range(inserts[i].rows) \cap Range(inserts[j].rows) = {}
    /\ pc = "done" =>
          \A f \in DOMAIN results :
             results[f] # None =>
                Cardinality({i \in DOMAIN inserts :
                                results[f] \in Range(inserts[i].rows)}) = 1

C10_Witness ==
    /\ pc = "done"
    /\ \E i, j \in DOMAIN inserts :
          /\ i < j
          /\ InsertFailed(i)
          /\ ~InsertFailed(j)

(***************************************************************************)
(* C11.  When no file is left after the filter, process_all returns at     *)
(* once: it is at its end with nothing attempted, nothing successful and   *)
(* nothing failed, the step that finds the list empty leaves the table,    *)
(* the executor and the batch as they were, and no step follows it.        *)
(***************************************************************************)
\* the run ended at line 227: nothing was submitted, called, counted or
\* written, and nothing more can happen
C11_NothingDone ==
    /\ (pc # "get_gcs_files" /\ files = <<>>) <=> pc = "no_files"
    /\ pc = "no_files" =>
          /\ submitted = <<>> /\ work_queue = <<>> /\ running = {}
          /\ replies = <<>> /\ results = <<>>
          /\ successful = 0 /\ pbar = 0
          /\ batch = <<>> /\ inserts = <<>>
          /\ \A row \in table_rows : row["contract_id"] < 0
          /\ ~ENABLED Next

\* the step that finds no file does not touch the table
C11_Return ==
    (pc = "get_gcs_files" /\ files' = <<>>) =>
        /\ pc' = "no_files"
        /\ UNCHANGED <<table_exists, table_rows, poolvars, drainvars>>

C11_EmptyRunReturns == []C11_NothingDone /\ [][C11_Return]_vars

\* the filter removed every listed file
C11_Witness ==
    /\ pc = "no_files"
    /\ skip_processed
    /\ all_files # <<>>
    /\ Range(all_files) \subseteq processed_files

(***************************************************************************)
(* C12.  Cancellation, as claimed: when the run is interrupted during the  *)
(* loop, the records already in the batch are written to the table before  *)
(* process_all is left, so every record the loop took has been passed to   *)
(* insert_batch.  The code has no handler: the interrupt leaves            *)
(* process_all with the batch unwritten.                                   *)
(***************************************************************************)
C12_CancelFlushesAsClaimed ==
    pc = "interrupted" => Records(yielded) \subseteq Range(Flushed)

(***************************************************************************)
(* C13.  Table creation, as claimed: create_table is done before anything  *)
(* is submitted or written, the table is there afterwards, and a table     *)
(* that already exists never makes the run end in create_table, also when  *)
(* get_table failed for another reason than the table's absence.  The      *)
(* bare except sends every get_table failure to                            *)
(* bigquery_client.create_table, whose Conflict nothing catches.           *)
(***************************************************************************)
C13_CreateIdempotentAsClaimed ==
    /\ pc \in {"submit", "drain", "remaining", "done"} => table_exists
    /\ (submitted # <<>> \/ inserts # <<>>) => table_exists
    /\ table_exists => pc # "raised"

(***************************************************************************)
(* C14.  The counters, as claimed: every run that has listed its files     *)
(* ends with candidates = skipped + attempted, attempted = succeeded +     *)
(* failed = the number of files submitted, succeeded = the number of       *)
(* records passed to insert_batch, and a progress count that goes up by    *)
(* one with every result taken and is the number attempted at the end.     *)
(* A run that create_table ends (see C13) has files to attempt and has     *)
(* submitted none.                                                         *)
(***************************************************************************)
\* len(all_files), len(all_files) - len(files), len(files) of lines 106-112
\* and 257
Candidates == Len(all_files)

Skipped == Cardinality(Range(all_files) \cap processed_files)

Attempted == Len(files)

\* the calls that returned None
Failed == Cardinality({f \in DOMAIN results : results[f] = None})

C14_Summary ==
    Ended =>
        /\ Candidates = Skipped + Attempted
        /\ Attempted = successful + Failed
        /\ Attempted = Len(submitted)
        /\ successful = Len(Flushed)
        /\ pbar = Attempted

C14_Progress ==
    /\ pbar' \in {pbar, pbar + 1}
    /\ pbar' = pbar + 1 <=> yielded' # yielded

C14_CountersAsClaimed == []C14_Summary /\ [][C14_Progress]_vars

(***************************************************************************)
(* C15.  One call each, as claimed: in a run the service is called exactly *)
(* once for every file left after the filter, whether the call succeeds    *)
(* or fails, and a failed call is not made again.  A run that create_table *)
(* ends (see C13) has made no call for its files.                          *)
(***************************************************************************)
\* a file is queued, or being called, or has its one result, never two of
\* these; at the end of the run every file of the run has its result
C15_OneResult ==
    /\ NoDuplicates(work_queue)
    /\ Range(work_queue) \cap running = {}
    /\ (Range(work_queue) \cup running) \cap DOMAIN results = {}
    /\ DOMAIN replies \subseteq running
    /\ Ended => DOMAIN results = Range(files)

\* the service answers only a file that has no answer and no result yet,
\* and a result, once there, stays: None is not replaced by a second try
C15_Call ==
    /\ \A f \in DOMAIN replies' \ DOMAIN replies :
          f \in running /\ f \notin DOMAIN results
    /\ \A f \in DOMAIN results :
          f \in DOMAIN results' /\ results'[f] = results[f]

C15_OnceEachAsClaimed == []C15_OneResult /\ [][C15_Call]_vars

(***************************************************************************)
(* C16.  Completion order: in the loop, every finished call whose result   *)
(* has not been taken can be taken next, whichever calls submitted before  *)
(* it are still queued or running; the turn that takes a record puts it    *)
(* at the end of the batch, or writes it as the last row of the insert     *)
(* that turn makes.                                                        *)
(***************************************************************************)
C16_Ready ==
    pc = "drain" => \A f \in DOMAIN results \ yielded : ENABLED Drain(f)

C16_Turn ==
    \A f \in yielded' \ yielded :
       results[f] # None =>
          \/ batch' = Append(batch, results[f]) /\ inserts' = inserts
          \/ /\ inserts' = Append(inserts, [rows |-> Append(batch, results[f]),
                                             site |-> "loop"])
             /\ batch' = <<>>

C16_CompletionOrder == []C16_Ready /\ [][C16_Turn]_vars

\* a record is written while a file submitted before its file is still
\* being called
C16_Witness ==
    \E i, j \in DOMAIN submitted :
       /\ i < j
       /\ submitted[i] \in InFlight
       /\ submitted[j] \in yielded
       /\ results[submitted[j]] # None
       /\ results[submitted[j]] \in Range(Flushed)

(***************************************************************************)
(* C17.  One consumer: the batch and the inserts change only in a turn of  *)
(* the loop (or in the insert after it), never in a step of a worker       *)
(* thread; with batch_size >= 1 the batch holds fewer than batch_size      *)
(* records between two turns, no insert is given more than batch_size      *)
(* records, and every record the loop has taken is in the batch or in an   *)
(* insert, the ones taken while an insert was made included.               *)
(***************************************************************************)
C17_Bounded ==
    batch_size >= 1 =>
        /\ Len(batch) < batch_size
        /\ \A i \in DOMAIN inserts : Len(inserts[i].rows) <= batch_size
        /\ pc # "done" =>
              /\ Records(yielded) = Range(batch) \cup Range(Flushed)
              /\ Len(batch) + Len(Flushed) = successful

C17_SoleMutator ==
    /\ batch' # batch =>
          /\ pc = "drain"
          /\ \E f \in DOMAIN results \ yielded :
                yielded' = yielded \cup {f} /\ results[f] # None
    /\ inserts' # inserts => pc \in {"drain", "remaining"}
    /\ poolvars' # poolvars => UNCHANGED drainvars

C17_SingleConsumer == []C17_Bounded /\ [][C17_SoleMutator]_vars

\* two results are taken, a record waits in the batch, and a worker thread
\* is about to finish its call
C17_Witness ==
    /\ pc = "drain"
    /\ batch_size = 2
    /\ Len(batch) = 1
    /\ Cardinality(yielded) = 2
    /\ running \cap DOMAIN replies # {}

(***************************************************************************)
(* C18.  Two runs over the same bucket, no call to the service or to the   *)
(* store failing in either.  When the second run is made with              *)
(* --reprocess-all, the table ends with two rows for every listed file,    *)
(* with the same file_path and different contract_id; when it is made in   *)
(* default mode, no file the first run wrote is submitted and the table    *)
(* gets no row.  No step of either run removes or replaces a row.          *)
(***************************************************************************)
\* the rows of the table for one path
RowsOf(f) == {row \in table_rows : row["file_path"] = f}

\* the first run wrote a row for f
WrittenByFirstRun(f) ==
    \E row \in RowsOf(f) : row["contract_id"] \in 1..Len(ContractBlobs)

\* the first run wrote every listed contract file
FirstRunWroteAll ==
    \A f \in Range(ListedFiles(blobs)) : WrittenByFirstRun(f)

\* in the current run no call failed so far
NoCallFailed ==
    /\ query_result # "failed"
    /\ pc # "raised"
    /\ \A f \in DOMAIN results : results[f] # None
    /\ \A i \in DOMAIN inserts : ~InsertFailed(i)

C18_SecondRun ==
    (run = 2 /\ FirstRunWroteAll /\ NoCallFailed) =>
        /\ (~skip_processed /\ pc = "done") =>
              \A f \in Range(ListedFiles(blobs)) :
                 \E r1, r2 \in RowsOf(f) :
                    /\ r1["contract_id"] # r2["contract_id"]
                    /\ RowsOf(f) = {r1, r2}
        /\ (skip_processed /\ pc # "get_gcs_files") =>
              /\ pc = "no_files"
              /\ submitted = <<>> /\ results = <<>> /\ inserts = <<>>
              /\ \A f \in Range(ListedFiles(blobs)) :
                    Cardinality(RowsOf(f)) = 1

C18_RowsStay == table_rows \subseteq table_rows'

C18_RerunDuplicates == []C18_SecondRun /\ [][C18_RowsStay]_vars

\* the second run, with --reprocess-all, has written its rows beside the
\* rows of the first
C18_Witness ==
    /\ run = 2
    /\ pc = "done"
    /\ ~skip_processed
    /\ Len(all_files) = 2
    /\ FirstRunWroteAll
    /\ NoCallFailed
    /\ \A f \in Range(all_files) : Cardinality(RowsOf(f)) = 2

\* the second run, in default mode, found every listed file in the table
C18_WitnessDefault ==
    /\ run = 2
    /\ pc = "no_files"
    /\ skip_processed
    /\ Len(all_files) = 2
    /\ FirstRunWroteAll
    /\ query_result = "rows"

(***************************************************************************)
(* C19.  No path twice: in both modes the listed files, the files of the   *)
(* run and the files submitted to the executor are pairwise different,     *)
(* and the executor never holds a file in two places.                      *)
(***************************************************************************)
C19_DistinctSubmissions ==
    /\ NoDuplicates(all_files)
    /\ NoDuplicates(files)
    /\ NoDuplicates(submitted)
    /\ submitted = SubSeq(files, 1, Len(submitted))
    /\ Cardinality(Range(work_queue) \cup running \cup DOMAIN results)
          = Len(submitted)

\* default mode: the filter took a file out and left two to submit
C19_Witness ==
    /\ skip_processed
    /\ Skipped = 1
    /\ Len(submitted) = 2
    /\ pc = "drain"

(***************************************************************************)
(* C20.  Termination: when no thread and no call hangs, process_all comes  *)
(* to its end, and at the end nothing waits in the batch unwritten: every  *)
(* record a call returned has been passed to insert_batch, in exactly one  *)
(* call and once in it.  (The list `batch` itself still holds the rows of  *)
(* the last insert when process_all returns; it is not used again.)        *)
(***************************************************************************)
\* how often a record occurs among the rows passed to insert_batch
TimesFlushed(record) ==
    Cardinality({<<i, k>> \in (DOMAIN inserts) \X (1..Len(files)) :
                    k \in DOMAIN inserts[i].rows /\ inserts[i].rows[k] = record})

C20_AllWrittenOnce ==
    /\ Range(batch) \subseteq Range(Flushed)
    /\ running = {} /\ work_queue = <<>> /\ replies = <<>>
    /\ DOMAIN results = Range(submitted)
    /\ \A f \in DOMAIN results :
          results[f] # None => TimesFlushed(results[f]) = 1
    /\ Len(Flushed) = successful

C20_Terminates == <>Ended /\ [](Ended => C20_AllWrittenOnce)

\* the run ended after a call failed and the one bulk write, of the record
\* left after the loop, was refused
C20_Witness ==
    /\ pc = "done"
    /\ Failed = 1
    /\ Len(inserts) = 1
    /\ inserts[1].site = "end"
    /\ InsertFailed(1)

(***************************************************************************)
(* C21.  Counted before written, as claimed: a record is counted as        *)
(* successful in the turn that takes it, whatever becomes of its bulk      *)
(* write; a bulk write that fails stores none of its rows, so at the end   *)
(* of the run its records are counted and not in the table; and a later    *)
(* run in default mode, whose existence query returns the stored paths,    *)
(* submits exactly the listed files the first run left without a row.      *)
(* The later run finds the table there, and create_table can end it        *)
(* before anything is submitted (see C13).                                 *)
(***************************************************************************)
\* the turn counts the record of the file it takes, and nothing else
C21_Counted ==
    \A f \in yielded' \ yielded :
       successful' = successful + (IF results[f] # None THEN 1 ELSE 0)

\* a bulk write stores all of its rows or none, and the count does not
\* depend on which
C21_AbsentThoughCounted ==
    /\ \A i \in DOMAIN inserts :
          \/ Range(BqRows(inserts[i].rows)) \subseteq table_rows
          \/ InsertFailed(i)
    /\ pc = "done" => successful = Len(Flushed)

\* the first run stored a file and left another without a row
FirstRunWroteSome ==
    /\ \E f \in Range(ListedFiles(blobs)) : WrittenByFirstRun(f)
    /\ \E f \in Range(ListedFiles(blobs)) : ~WrittenByFirstRun(f)

\* the second run, in default mode, has submitted at its end the files
\* the first run did not store, and only those
C21_Resubmitted ==
    (run = 2 /\ skip_processed /\ query_result = "rows" /\ Ended
       /\ FirstRunWroteSome) =>
        Range(submitted) =
            {f \in Range(ListedFiles(blobs)) : ~WrittenByFirstRun(f)}

C21_CountedNotStoredAsClaimed ==
    /\ [](C21_AbsentThoughCounted /\ C21_Resubmitted)
    /\ [][C21_Counted]_vars

====
